---- MODULE Spec2Model ----
(***************************************************************************)
(* Superpermutation engine: the mixed-radix codec, the permutation mapper  *)
(* built on it, and the two strategies (bruteforce, bruteforce_optimise)   *)
(* for create_superperm / check_superperm.                                 *)
(*                                                                         *)
(* Rust vectors are modelled as TLA+ sequences (1-based); a Rust index k   *)
(* is the TLA+ index k+1.  Checklists keep the Rust 0-based index and are  *)
(* functions over 0..len-1.  Option<usize> is a sequence: None is << >>    *)
(* and Some(v) is <<v>>.  A call that panics yields the result "panic".    *)
(***************************************************************************)
EXTENDS Integers, Sequences, FiniteSets

\* ------------------------------------------------------------------ bounds

\* Largest alphabet size explored for check_superperm and the mapper.
MaxN == 3
\* Longest in-alphabet sequence handed to check_superperm.
MaxLen == 10
\* Longest sequence that holds a token outside 1..n.
MaxForeignLen == 4
\* Number of sequences of one length explored per alphabet (caps n^len).
MaxSeqs == 60000
\* Largest alphabet of a mapper whose values are round-tripped.
MaxMapperN == 5
\* Largest alphabet of a mapper that is handed arbitrary vectors.
MaxTargetN == 4
\* Largest per-position base and position count of a free-standing MixedRadix.
MaxBase == 4
MaxPositions == 3
\* Largest base and position count of an iterated MixedRadix, and the number
\* of iterations started on one system.
MaxIterBase == 3
MaxIterPositions == 3
MaxPasses == 2
\* Width of usize in the model, narrowed from the platform's 64 bits so that
\* 2^w stays representable; only wrap-around to/near zero is ever observed.
UsizeBits == 16

\* Exclusive end of the self-agreement range of the tests: for n in 1..7.
SelfAgreementEnd == 7

UsizeModulus == 2 ^ UsizeBits

\* -------------------------------------------------------------- usize ops

\* a - b on usize without overflow checks (release profile).
wrapping_sub(a, b) == (a - b + UsizeModulus) % UsizeModulus

\* a + b on usize without overflow checks (release profile).
wrapping_add(a, b) == (a + b) % UsizeModulus

\* ------------------------------------------------------------- MixedRadix

RECURSIVE product(_)
\* `max *= base` over the bases, starting from 1.
product(bases) ==
    IF bases = << >> THEN 1 ELSE Head(bases) * product(Tail(bases))

\* MixedRadix::new
MixedRadix_new(bases) == [bases |-> bases, max_value |-> product(bases)]

RECURSIVE encode_loop_keeps_carry(_, _, _)
\* encode_value without `carry_over = carry_over / base`.
encode_loop_keeps_carry(bases, i, carry_over) ==
    IF i > Len(bases) THEN << >>
    ELSE <<carry_over % bases[i]>>
            \o encode_loop_keeps_carry(bases, i + 1, carry_over)

RECURSIVE encode_loop(_, _, _)
\* The loop of encode_value from position i (1-based) with carry_over.
encode_loop(bases, i, carry_over) ==
    IF i > Len(bases) THEN << >>
    ELSE <<carry_over % bases[i]>>
            \o encode_loop(bases, i + 1, carry_over \div bases[i])

\* MixedRadix::encode_value
encode_value(sys, val) == encode_loop(sys.bases, 1, val)

RECURSIVE decode_loop(_, _, _, _)
\* The loop of decode_representation from position pos with position_mult.
decode_loop(bases, repr, pos, position_mult) ==
    IF pos > Len(bases) THEN 0
    ELSE repr[pos] * position_mult
            + decode_loop(bases, repr, pos + 1, position_mult * bases[pos])

\* MixedRadix::decode_representation
decode_representation(sys, repr) == decode_loop(sys.bases, repr, 1, 1)

\* IntoIterator for &MixedRadix, collected: next() yields encode_value(i) for
\* i = 0, 1, ... while i < max_value.
MixedRadix_iter(sys) == [k \in 1..sys.max_value |-> encode_value(sys, k - 1)]

\* IntoIterator::into_iter for &MixedRadix: the iterator's i.
MixedRadix_into_iter(sys) == 0

\* next() that tests `self.i > self.system.max_value`.
MixedRadixIter_next_past_end(sys, i) ==
    IF i > sys.max_value THEN [item |-> << >>, i |-> i]
    ELSE [item |-> <<encode_value(sys, i)>>, i |-> i + 1]

\* MixedRadixIter::next: None (<< >>) once i >= max_value, else
\* Some(encode_value(i)) with i advanced.
MixedRadixIter_next(sys, i) ==
    IF i >= sys.max_value THEN [item |-> << >>, i |-> i]
    ELSE [item |-> <<encode_value(sys, i)>>, i |-> i + 1]

\* ------------------------------------------------------ PermutationMapper

\* PermutationMapper::new: bases are (1..len+1).rev() = [len, len-1, .., 1].
PermutationMapper_new(sequence) ==
    [core_sequence |-> sequence,
     mixed_radix_sys |->
        MixedRadix_new([k \in 1..Len(sequence) |-> Len(sequence) + 1 - k])]

\* Mapper over the tokens 1..n, as both Handle operations build it.
mapper_for(n_tokens) == PermutationMapper_new([k \in 1..n_tokens |-> k])

RECURSIVE skip_filled(_, _)
\* `while output_perm[ind] != 0 { ind += 1 }` (ind 1-based).
skip_filled(output_perm, ind) ==
    IF output_perm[ind] # 0 THEN skip_filled(output_perm, ind + 1) ELSE ind

RECURSIVE shift_along(_, _, _)
\* `for _ in 0..shift { ind += 1; while output_perm[ind] != 0 { ind += 1 } }`
shift_along(output_perm, ind, shift) ==
    IF shift = 0 THEN ind
    ELSE shift_along(output_perm, skip_filled(output_perm, ind + 1), shift - 1)

RECURSIVE place_tokens(_, _, _, _)
\* The token loop of value_to_perm from position pos of core_sequence.
place_tokens(core, repr, pos, output_perm) ==
    IF pos > Len(core) THEN output_perm
    ELSE LET ind == shift_along(output_perm,
                                skip_filled(output_perm, 1), repr[pos])
         IN  place_tokens(core, repr, pos + 1,
                          [output_perm EXCEPT ![ind] = core[pos]])

\* PermutationMapper::value_to_perm
value_to_perm(mapper, value) ==
    place_tokens(mapper.core_sequence,
                 encode_value(mapper.mixed_radix_sys, value), 1,
                 [k \in 1..Len(mapper.core_sequence) |-> 0])

RECURSIVE skip_claimed(_, _, _)
\* `while ind < max_ind && pos_is_filled[ind] == true { ind += 1 }`; ind is
\* 1-based, so the Rust guard ind < max_ind reads ind <= max_ind.
skip_claimed(pos_is_filled, ind, max_ind) ==
    IF ind <= max_ind /\ pos_is_filled[ind]
    THEN skip_claimed(pos_is_filled, ind + 1, max_ind) ELSE ind

RECURSIVE seek_token_noskip(_, _, _, _, _, _)
\* The seek of perm_to_value without the skip over filled positions.
seek_token_noskip(token, permutation, pos_is_filled, ind, shift, max_ind) ==
    IF ind <= max_ind /\ token # permutation[ind]
    THEN seek_token_noskip(token, permutation, pos_is_filled, ind + 1,
                           shift + 1, max_ind)
    ELSE [ind |-> ind, shift |-> shift]

RECURSIVE seek_token(_, _, _, _, _, _)
\* `while ind < max_ind && *token != permutation[ind] { ind += 1; shift += 1;
\* skip filled }`; yields the final ind and shift.
seek_token(token, permutation, pos_is_filled, ind, shift, max_ind) ==
    IF ind <= max_ind /\ token # permutation[ind]
    THEN seek_token(token, permutation, pos_is_filled,
                    skip_claimed(pos_is_filled, ind + 1, max_ind),
                    shift + 1, max_ind)
    ELSE [ind |-> ind, shift |-> shift]

RECURSIVE digits_of(_, _, _, _, _)
\* The token loop of perm_to_value: None (<< >>) when the index rolls off the
\* edge, else Some(repr) as <<repr>>.
digits_of(core, permutation, pos, pos_is_filled, repr) ==
    IF pos > Len(core) THEN <<repr>>
    ELSE LET max_ind == Len(core)
             found == seek_token(core[pos], permutation, pos_is_filled,
                                 skip_claimed(pos_is_filled, 1, max_ind),
                                 0, max_ind)
         IN  IF found.ind > max_ind THEN << >>
             ELSE digits_of(core, permutation, pos + 1,
                            [pos_is_filled EXCEPT ![found.ind] = TRUE],
                            Append(repr, found.shift))

\* The token loop of perm_to_value run on permutation, decoded.
value_of_digits(mapper, permutation) ==
    LET got == digits_of(mapper.core_sequence, permutation, 1,
                         [k \in 1..Len(mapper.core_sequence) |-> FALSE],
                         << >>)
    IN  IF got = << >> THEN << >>
        ELSE <<decode_representation(mapper.mixed_radix_sys, got[1])>>

\* perm_to_value whose length test only rejects shorter vectors.
perm_to_value_accepts_longer(mapper, permutation) ==
    IF Len(permutation) < Len(mapper.core_sequence) THEN << >>
    ELSE value_of_digits(mapper, permutation)

\* PermutationMapper::perm_to_value
perm_to_value(mapper, permutation) ==
    IF Len(permutation) # Len(mapper.core_sequence) THEN << >>
    ELSE value_of_digits(mapper, permutation)

\* Vec::contains
contains(vec, x) == \E k \in 1..Len(vec) : vec[k] = x

\* `core_leftover.retain(|x| !perm_target.contains(x))`
retain_missing(core, perm_target) ==
    SelectSeq(core, LAMBDA x : ~contains(perm_target, x))

\* `.into_iter().rev().collect()`
rev(vec) == [k \in 1..Len(vec) |-> vec[Len(vec) + 1 - k]]

\* The n == 0 branch of possible_values_for: (1..max_value).collect().
all_values(mapper) == [k \in 1..(mapper.mixed_radix_sys.max_value - 1) |-> k]

\* values_between with the spans taken as max - min.
values_between_exclusive(mapper, min_repr, max_repr) ==
    LET sys == MixedRadix_new(
                  [k \in 1..Len(max_repr) |-> max_repr[k] - min_repr[k]])
        reprs == MixedRadix_iter(sys)
    IN  [j \in 1..Len(reprs) |->
            decode_representation(mapper.mixed_radix_sys,
                [k \in 1..Len(min_repr) |-> min_repr[k] + reprs[j][k]])]

\* The values between min_repr and max_repr, in the iteration order of the
\* derived system (lines 241-258 of possible_values_for).
values_between(mapper, min_repr, max_repr) ==
    LET sys == MixedRadix_new(
                  [k \in 1..Len(max_repr) |-> max_repr[k] + 1 - min_repr[k]])
        reprs == MixedRadix_iter(sys)
    IN  [j \in 1..Len(reprs) |->
            decode_representation(mapper.mixed_radix_sys,
                [k \in 1..Len(min_repr) |-> min_repr[k] + reprs[j][k]])]

\* PermutationMapper::possible_values_for
possible_values_for(mapper, perm_target) ==
    IF Len(perm_target) = 0 THEN all_values(mapper)
    ELSE LET core_leftover == retain_missing(mapper.core_sequence, perm_target)
             lo == perm_to_value(mapper, perm_target \o core_leftover)
             hi == perm_to_value(mapper, perm_target \o rev(core_leftover))
         IN  IF lo = << >> THEN << >>
             ELSE IF hi = << >> THEN << >>
             ELSE values_between(mapper,
                     encode_value(mapper.mixed_radix_sys, lo[1]),
                     encode_value(mapper.mixed_radix_sys, hi[1]))

\* ------------------------------------------------------------ bruteforce

RECURSIVE lex_perms(_)
\* All orderings of the token set S in lexicographic order, which is what
\* (1..n+1).permutations(n) yields for the sorted range.
lex_perms(S) ==
    IF S = {} THEN << << >> >>
    ELSE LET RECURSIVE from(_)
             from(x) ==
                IF x \notin S
                THEN (IF \E y \in S : y > x THEN from(x + 1) ELSE << >>)
                ELSE LET rest == lex_perms(S \ {x})
                     IN  [k \in 1..Len(rest) |-> <<x>> \o rest[k]]
                            \o (IF \E y \in S : y > x THEN from(x + 1)
                                ELSE << >>)
         IN  from(CHOOSE m \in S : \A y \in S : m <= y)

\* generate_perms, tabulated once per n.
perms_table ==
    [n \in (1..(SelfAgreementEnd - 1)) \cup (1..MaxN) |-> lex_perms(1..n)]

\* generate_perms
generate_perms(n) == perms_table[n]

\* `&potential_super[i..i+perm_n]` for the Rust index i.
slice(vec, i, width) == SubSeq(vec, i + 1, i + width)

\* The end of the range `0..potential_super.len()-perm_n+1`: the subtraction
\* overflows when len < perm_n, which panics under overflow checks (debug
\* profile) and wraps without them (release profile).
window_range_end(len, perm_n, overflow_checks) ==
    IF len < perm_n /\ overflow_checks THEN [panic |-> TRUE, end |-> 0]
    ELSE IF len < perm_n
    THEN [panic |-> FALSE,
          end |-> wrapping_add(wrapping_sub(len, perm_n), 1)]
    ELSE [panic |-> FALSE, end |-> len - perm_n + 1]

\* check_superperm that fails on a window matching no permutation.
bruteforce_check_strict(potential_super, perm_n, overflow_checks) ==
    LET perms == generate_perms(perm_n)
        len == Len(potential_super)
        range == window_range_end(len, perm_n, overflow_checks)
    IN  IF range.panic THEN "panic"
        ELSE IF \E i \in 0..(range.end - 1) : i + perm_n > len THEN "panic"
        ELSE IF \E i \in 0..(range.end - 1) :
                    \A pos \in 1..Len(perms) :
                        perms[pos] # slice(potential_super, i, perm_n)
        THEN "false"
        ELSE IF \E pos \in 1..Len(perms) :
                    \A i \in 0..(range.end - 1) :
                        perms[pos] # slice(potential_super, i, perm_n)
        THEN "false" ELSE "true"

\* bruteforce::check_superperm
bruteforce_check_superperm(potential_super, perm_n, overflow_checks) ==
    LET perms == generate_perms(perm_n)
        len == Len(potential_super)
        range == window_range_end(len, perm_n, overflow_checks)
    IN  IF range.panic THEN "panic"
        \* slicing [i..i+perm_n] past the end of the vector panics
        ELSE IF \E i \in 0..(range.end - 1) : i + perm_n > len THEN "panic"
        ELSE LET perm_checklist ==
                    [pos \in 0..(Len(perms) - 1) |->
                        \E i \in 0..(range.end - 1) :
                            perms[pos + 1] = slice(potential_super, i, perm_n)]
             IN  IF \E pos \in DOMAIN perm_checklist : ~perm_checklist[pos]
                 THEN "false" ELSE "true"

\* The smallest member of a non-empty set of indices at or after k: the one
\* a forward scan with `break` stops at.
first_index(S, k) == CHOOSE m \in S : m >= k /\ \A j \in S : j >= k => m <= j

RECURSIVE bruteforce_try_width_no_mark(_, _, _, _)
\* The width loop without `perm_checklist[pos] = true`.
bruteforce_try_width_no_mark(all_perms, superperm, perm_checklist, i) ==
    LET trailing == SubSeq(superperm, Len(superperm) - i + 1, Len(superperm))
        matches == {pos \in 0..(Len(all_perms) - 1) :
                        /\ ~perm_checklist[pos]
                        /\ SubSeq(all_perms[pos + 1], 1, i) = trailing}
    IN  IF matches # {}
        THEN LET perm == all_perms[first_index(matches, 0) + 1]
             IN  [superperm |-> superperm \o SubSeq(perm, i + 1, Len(perm)),
                  perm_checklist |-> perm_checklist]
        ELSE IF i = 0
        THEN [superperm |-> superperm, perm_checklist |-> perm_checklist]
        ELSE bruteforce_try_width_no_mark(all_perms, superperm,
                                          perm_checklist, i - 1)

RECURSIVE bruteforce_try_width(_, _, _, _)
\* `for i in (0..perm_n).rev()` of bruteforce::create_superperm from width i:
\* the first unchecked perm whose first i tokens equal the trailing i tokens
\* is checked off and its rest appended; i = 0 matches every unchecked perm.
bruteforce_try_width(all_perms, superperm, perm_checklist, i) ==
    LET trailing == SubSeq(superperm, Len(superperm) - i + 1, Len(superperm))
        matches == {pos \in 0..(Len(all_perms) - 1) :
                        /\ ~perm_checklist[pos]
                        /\ SubSeq(all_perms[pos + 1], 1, i) = trailing}
    IN  IF matches # {}
        THEN LET pos == first_index(matches, 0)
                 perm == all_perms[pos + 1]
             IN  [superperm |-> superperm \o SubSeq(perm, i + 1, Len(perm)),
                  perm_checklist |-> [perm_checklist EXCEPT ![pos] = TRUE]]
        ELSE IF i = 0
        THEN [superperm |-> superperm, perm_checklist |-> perm_checklist]
        ELSE bruteforce_try_width(all_perms, superperm, perm_checklist, i - 1)

\* One round of the outer loop of bruteforce::create_superperm.
bruteforce_round(perm_n, superperm, perm_checklist) ==
    bruteforce_try_width(generate_perms(perm_n), superperm, perm_checklist,
                         perm_n - 1)

\* ---------------------------------------------------- bruteforce_optimise

\* The values `for value in values { perm_checklist[value] = true }` marks for
\* the window at Rust index i.
window_values(mapper, sequence, i) ==
    LET values == possible_values_for(mapper,
                     slice(sequence, i, Len(mapper.core_sequence)))
    IN  {values[j] : j \in 1..Len(values)}

\* check_superperm that never looks at the last window.
optimise_check_skips_last(sequence, n_tokens) ==
    LET mapper == mapper_for(n_tokens)
        width == Len(mapper.core_sequence)
        marked == UNION {window_values(mapper, sequence, i) :
                            i \in 0..(Len(sequence) - width - 1)}
    IN  IF \E v \in 0..(mapper.mixed_radix_sys.max_value - 1) : v \notin marked
        THEN "false" ELSE "true"

\* bruteforce_optimise::Handle::check_superperm; sequence.windows(n) yields the
\* windows at indices 0..len-n, none when len < n.
optimise_check_superperm(sequence, n_tokens) ==
    LET mapper == mapper_for(n_tokens)
        width == Len(mapper.core_sequence)
        marked == UNION {window_values(mapper, sequence, i) :
                            i \in 0..(Len(sequence) - width)}
        perm_checklist ==
            [v \in 0..(mapper.mixed_radix_sys.max_value - 1) |-> v \in marked]
    IN  IF \E v \in DOMAIN perm_checklist : ~perm_checklist[v]
        THEN "false" ELSE "true"

\* The fallback of Handle::create_superperm (`if !trail_matched`): the first
\* unchecked permutation is appended whole; the checklist is not written.
optimise_fallback(mapper, superperm, perm_checklist) ==
    LET unchecked == {v \in DOMAIN perm_checklist : ~perm_checklist[v]}
    IN  IF unchecked = {}
        THEN [superperm |-> superperm, perm_checklist |-> perm_checklist]
        ELSE [superperm |->
                superperm \o value_to_perm(mapper, first_index(unchecked, 0)),
              perm_checklist |-> perm_checklist]

\* The largest member of a non-empty set of indices.
last_index(S) == CHOOSE m \in S : \A j \in S : j <= m

RECURSIVE optimise_try_width_last_found(_, _, _, _)
\* The width loop taking the last unchecked value instead of the first.
optimise_try_width_last_found(mapper, superperm, perm_checklist, i) ==
    IF i < 1 THEN optimise_fallback(mapper, superperm, perm_checklist)
    ELSE LET trailing ==
                SubSeq(superperm, Len(superperm) - i + 1, Len(superperm))
             values == possible_values_for(mapper, trailing)
             open == {j \in 1..Len(values) : ~perm_checklist[values[j]]}
         IN  IF open # {}
             THEN LET value == values[last_index(open)]
                      perm == value_to_perm(mapper, value)
                  IN  [superperm |->
                          superperm \o SubSeq(perm, i + 1, Len(perm)),
                       perm_checklist |->
                          [perm_checklist EXCEPT ![value] = TRUE]]
             ELSE optimise_try_width_last_found(mapper, superperm,
                                                perm_checklist, i - 1)

RECURSIVE optimise_try_width(_, _, _, _)
\* `for i in (1..len).rev()` of Handle::create_superperm from width i: the
\* first unchecked value of possible_values_for(trailing) is checked off and
\* the rest of its permutation appended; below width 1 the fallback runs.
optimise_try_width(mapper, superperm, perm_checklist, i) ==
    IF i < 1 THEN optimise_fallback(mapper, superperm, perm_checklist)
    ELSE LET trailing ==
                SubSeq(superperm, Len(superperm) - i + 1, Len(superperm))
             values == possible_values_for(mapper, trailing)
             open == {j \in 1..Len(values) : ~perm_checklist[values[j]]}
         IN  IF open # {}
             THEN LET value == values[first_index(open, 1)]
                      perm == value_to_perm(mapper, value)
                  IN  [superperm |->
                          superperm \o SubSeq(perm, i + 1, Len(perm)),
                       perm_checklist |->
                          [perm_checklist EXCEPT ![value] = TRUE]]
             ELSE optimise_try_width(mapper, superperm, perm_checklist, i - 1)

\* One round of the outer loop of Handle::create_superperm.
optimise_round(n_tokens, superperm, perm_checklist) ==
    LET mapper == mapper_for(n_tokens)
    IN  optimise_try_width(mapper, superperm, perm_checklist,
                           Len(mapper.core_sequence) - 1)

\* ------------------------------------------------------------------ state

VARIABLES
    pc,                \* position of the running harness
    n_tokens,          \* n_tokens / perm_n of the call
    strategy,          \* "bruteforce" or "bruteforce_optimise"
    superperm,         \* create_superperm: the output built so far
    perm_checklist,    \* create_superperm: the checklist, 0-based
    round,             \* create_superperm: outer-loop rounds completed
    verdict,           \* check_superperm(create_superperm(n), n)
    sequence,          \* check_superperm: the sequence handed in
    naive_verdict,     \* bruteforce::check_superperm(sequence, n)
    optimise_verdict,  \* bruteforce_optimise check_superperm(sequence, n)
    value,             \* PermutationMapper: the value handed to value_to_perm
    perm,              \* value_to_perm(value)
    mapped,            \* perm_to_value(perm)
    perm_target,       \* the vector handed to the mapper's queries
    target_value,      \* perm_to_value(perm_target)
    values,            \* possible_values_for(perm_target)
    system,            \* a MixedRadix
    val,               \* the value handed to encode_value
    repr,              \* encode_value(val)
    decoded,           \* decode_representation(repr)
    iter_i,            \* MixedRadixIter: i of the running iterator
    yielded,           \* the items the running iterator has yielded
    passes             \* the items of each iteration that has ended

createVars == <<strategy, superperm, perm_checklist, round, verdict>>
checkVars == <<sequence, naive_verdict, optimise_verdict>>
valueVars == <<value, perm, mapped>>
targetVars == <<perm_target, target_value, values>>
iterVars == <<iter_i, yielded, passes>>
radixVars == <<system, val, repr, decoded, iterVars>>
vars == <<pc, n_tokens, createVars, checkVars, valueVars, targetVars,
          radixVars>>

\* The parts of the state a harness does not use.
CreateIdle ==
    /\ strategy = "none" /\ superperm = << >> /\ perm_checklist = << >>
    /\ round = 0 /\ verdict = "none"
CheckIdle ==
    sequence = << >> /\ naive_verdict = "none" /\ optimise_verdict = "none"
ValueIdle == value = 0 /\ perm = << >> /\ mapped = << >>
TargetIdle == perm_target = << >> /\ target_value = << >> /\ values = << >>
IterIdle == iter_i = 0 /\ yielded = << >> /\ passes = << >>
RadixIdle ==
    /\ system = MixedRadix_new(<< >>) /\ val = 0 /\ repr = << >> /\ decoded = 0
    /\ IterIdle

\* ------------------------------------------------------- create_superperm

\* An outer loop that ends one round before the last permutation is covered.
rounds_one_short(strat, n) ==
    IF strat = "bruteforce" THEN Len(generate_perms(n)) - 2
    ELSE mapper_for(n).mixed_radix_sys.max_value - 2

\* The permutation a checklist entry stands for: all_perms[pos] in
\* bruteforce, mapper.value_to_perm(&value) in bruteforce_optimise.
value_perms_table ==
    [n \in 1..(SelfAgreementEnd - 1) |->
        [v \in 0..(mapper_for(n).mixed_radix_sys.max_value - 1) |->
            value_to_perm(mapper_for(n), v)]]

checklist_perm(strat, n, v) ==
    IF strat = "bruteforce" THEN generate_perms(n)[v + 1]
    ELSE value_perms_table[n][v]

\* Rounds of the outer loop: `0..all_perms.len()` and `1..max_value`.
rounds_of(strat, n) ==
    IF strat = "bruteforce" THEN Len(generate_perms(n))
    ELSE mapper_for(n).mixed_radix_sys.max_value - 1

\* The state both create_superperm reach before their outer loop: the output
\* is the 0th permutation and entry 0 of the checklist is set.
CreateInit ==
    /\ pc = "loop"
    /\ n_tokens \in 1..(SelfAgreementEnd - 1)
    /\ strategy \in {"bruteforce", "bruteforce_optimise"}
    /\ superperm = [k \in 1..n_tokens |-> k]
    /\ perm_checklist =
          [v \in 0..(mapper_for(n_tokens).mixed_radix_sys.max_value - 1) |->
              v = 0]
    /\ round = 0
    /\ verdict = "none"
    /\ CheckIdle /\ ValueIdle /\ TargetIdle /\ RadixIdle

\* One round of the outer loop of create_superperm.
CreateRound ==
    /\ pc = "loop"
    /\ round < rounds_of(strategy, n_tokens)
    /\ LET next == IF strategy = "bruteforce"
                   THEN bruteforce_round(n_tokens, superperm, perm_checklist)
                   ELSE optimise_round(n_tokens, superperm, perm_checklist)
       IN  /\ superperm' = next.superperm
           /\ perm_checklist' = next.perm_checklist
    /\ round' = round + 1
    /\ UNCHANGED <<pc, n_tokens, strategy, verdict, checkVars, valueVars,
                   targetVars, radixVars>>

\* `return superperm` once the outer loop is exhausted.
CreateReturn ==
    /\ pc = "loop"
    /\ round = rounds_of(strategy, n_tokens)
    /\ pc' = "returned"
    /\ UNCHANGED <<n_tokens, createVars, checkVars, valueVars, targetVars,
                   radixVars>>

\* The self-agreement test: checker(&creator(n), n), under either profile.
SelfCheck ==
    /\ pc = "returned"
    /\ \E overflow_checks \in BOOLEAN :
          verdict' = IF strategy = "bruteforce"
                     THEN bruteforce_check_superperm(superperm, n_tokens,
                                                     overflow_checks)
                     ELSE optimise_check_superperm(superperm, n_tokens)
    /\ pc' = "checked"
    /\ UNCHANGED <<n_tokens, strategy, superperm, perm_checklist, round,
                   checkVars, valueVars, targetVars, radixVars>>

CreateNext == CreateRound \/ CreateReturn \/ SelfCheck

Spec == CreateInit /\ [][CreateNext]_vars

\* -------------------------------------------------------- check_superperm

\* A token outside the alphabet 1..n.
is_foreign(n, t) == t < 1 \/ t > n

\* Whether the harness may hand in a sequence one token longer.
may_grow(n, seq, t) ==
    /\ Len(seq) < MaxLen
    /\ n ^ (Len(seq) + 1) <= MaxSeqs
    /\ (is_foreign(n, t) \/ \E k \in 1..Len(seq) : is_foreign(n, seq[k]))
          => Len(seq) < MaxForeignLen

\* Both strategies called on seq, the naive one under either profile.
Checked(seq) ==
    /\ sequence' = seq
    /\ \E overflow_checks \in BOOLEAN :
          naive_verdict' =
              bruteforce_check_superperm(seq, n_tokens, overflow_checks)
    /\ optimise_verdict' = optimise_check_superperm(seq, n_tokens)
    /\ UNCHANGED <<pc, n_tokens, createVars, valueVars, targetVars, radixVars>>

\* check_superperm called on the empty sequence.
CheckInit ==
    /\ pc = "check"
    /\ n_tokens \in 1..MaxN
    /\ sequence = << >>
    /\ \E overflow_checks \in BOOLEAN :
          naive_verdict =
              bruteforce_check_superperm(<< >>, n_tokens, overflow_checks)
    /\ optimise_verdict = optimise_check_superperm(<< >>, n_tokens)
    /\ CreateIdle /\ ValueIdle /\ TargetIdle /\ RadixIdle

\* check_superperm called on the sequence with one more token at the end.
CheckPadBack ==
    \E t \in 0..(n_tokens + 1) :
        /\ may_grow(n_tokens, sequence, t)
        /\ Checked(Append(sequence, t))

\* check_superperm called on the sequence with one more token at the front.
CheckPadFront ==
    \E t \in 0..(n_tokens + 1) :
        /\ may_grow(n_tokens, sequence, t)
        /\ Checked(<<t>> \o sequence)

CheckNext == CheckPadBack \/ CheckPadFront

SpecCheck == CheckInit /\ [][CheckNext]_vars

\* ------------------------------------------------------ PermutationMapper

\* A mapper over 1..n and a value below max_value to be mapped.
ValueInit ==
    /\ pc = "value"
    /\ n_tokens \in 1..MaxMapperN
    /\ value \in 0..(mapper_for(n_tokens).mixed_radix_sys.max_value - 1)
    /\ perm = << >>
    /\ mapped = << >>
    /\ CreateIdle /\ CheckIdle /\ TargetIdle /\ RadixIdle

\* helper.value_to_perm(&i)
ValueToPerm ==
    /\ pc = "value"
    /\ perm' = value_to_perm(mapper_for(n_tokens), value)
    /\ pc' = "perm"
    /\ UNCHANGED <<n_tokens, value, mapped, createVars, checkVars, targetVars,
                   radixVars>>

\* helper.perm_to_value(&perm)
PermToValue ==
    /\ pc = "perm"
    /\ mapped' = perm_to_value(mapper_for(n_tokens), perm)
    /\ pc' = "mapped"
    /\ UNCHANGED <<n_tokens, value, perm, createVars, checkVars, targetVars,
                   radixVars>>

ValueNext == ValueToPerm \/ PermToValue

SpecValue == ValueInit /\ [][ValueNext]_vars

\* perm_to_value and possible_values_for called on the vector target.
Targeted(target) ==
    /\ perm_target' = target
    /\ target_value' = perm_to_value(mapper_for(n_tokens), target)
    /\ values' = possible_values_for(mapper_for(n_tokens), target)
    /\ UNCHANGED <<pc, n_tokens, createVars, checkVars, valueVars, radixVars>>

\* A mapper over 1..n queried with the empty vector.
TargetInit ==
    /\ pc = "target"
    /\ n_tokens \in 1..MaxTargetN
    /\ perm_target = << >>
    /\ target_value = perm_to_value(mapper_for(n_tokens), << >>)
    /\ values = possible_values_for(mapper_for(n_tokens), << >>)
    /\ CreateIdle /\ CheckIdle /\ ValueIdle /\ RadixIdle

\* The mapper queried with a vector one token longer, up to length n + 1,
\* over the tokens 0..n+1.
ExtendTarget ==
    \E t \in 0..(n_tokens + 1) :
        /\ Len(perm_target) <= n_tokens
        /\ Targeted(Append(perm_target, t))

TargetNext == ExtendTarget

SpecTarget == TargetInit /\ [][TargetNext]_vars

\* ------------------------------------------------------------- MixedRadix

\* MixedRadix::new on positive bases, and a value below max_value.
RadixInit ==
    /\ pc = "new"
    /\ n_tokens = 0
    /\ \E k \in 0..MaxPositions : \E bases \in [1..k -> 1..MaxBase] :
          system = MixedRadix_new(bases)
    /\ val \in 0..(system.max_value - 1)
    /\ repr = << >>
    /\ decoded = 0
    /\ IterIdle
    /\ CreateIdle /\ CheckIdle /\ ValueIdle /\ TargetIdle

\* system.encode_value(&val)
Encode ==
    /\ pc = "new"
    /\ repr' = encode_value(system, val)
    /\ pc' = "encoded"
    /\ UNCHANGED <<n_tokens, system, val, decoded, iterVars, createVars,
                   checkVars, valueVars, targetVars>>

\* system.decode_representation(&repr)
Decode ==
    /\ pc = "encoded"
    /\ decoded' = decode_representation(system, repr)
    /\ pc' = "decoded"
    /\ UNCHANGED <<n_tokens, system, val, repr, iterVars, createVars,
                   checkVars, valueVars, targetVars>>

RadixNext == Encode \/ Decode

SpecRadix == RadixInit /\ [][RadixNext]_vars

\* --------------------------------------------------------- MixedRadixIter

\* `for repr in system.into_iter()` has just begun on a system of positive
\* bases.
IterInit ==
    /\ pc = "iterating"
    /\ n_tokens = 0
    /\ \E k \in 0..MaxIterPositions : \E bases \in [1..k -> 1..MaxIterBase] :
          system = MixedRadix_new(bases)
    /\ iter_i = MixedRadix_into_iter(system)
    /\ yielded = << >>
    /\ passes = << >>
    /\ val = 0 /\ repr = << >> /\ decoded = 0
    /\ CreateIdle /\ CheckIdle /\ ValueIdle /\ TargetIdle

\* One call of next() by the running loop: an item, or None ending the loop.
IterNext ==
    /\ pc = "iterating"
    /\ LET got == MixedRadixIter_next(system, iter_i)
       IN  /\ iter_i' = got.i
           /\ yielded' = yielded \o got.item
           /\ pc' = IF got.item = << >> THEN "ended" ELSE "iterating"
    /\ UNCHANGED <<n_tokens, system, val, repr, decoded, passes, createVars,
                   checkVars, valueVars, targetVars>>

\* The next `system.into_iter()` on the same system, after a loop has ended.
IterAgain ==
    /\ pc = "ended"
    /\ Len(passes) + 1 < MaxPasses
    /\ passes' = Append(passes, yielded)
    /\ iter_i' = MixedRadix_into_iter(system)
    /\ yielded' = << >>
    /\ pc' = "iterating"
    /\ UNCHANGED <<n_tokens, system, val, repr, decoded, createVars,
                   checkVars, valueVars, targetVars>>

IterNextStep == IterNext \/ IterAgain

SpecIter == IterInit /\ [][IterNextStep]_vars

\* ------------------------------------------------------------- properties

\* p is an ordering of the tokens 1..n, each exactly once.
IsPermutation(p, n) ==
    Len(p) = n /\ \A t \in 1..n : \E k \in 1..n : p[k] = t

\* The n! permutations of 1..n, tabulated.
permutations_table ==
    [n \in 0..(SelfAgreementEnd - 1) |->
        {p \in [1..n -> 1..n] : IsPermutation(p, n)}]

Permutations(n) == permutations_table[n]

\* The contiguous windows of width n of seq.
Windows(seq, n) == {SubSeq(seq, i, i + n - 1) : i \in 1..(Len(seq) - n + 1)}

\* Every permutation of 1..n occurs in seq as a contiguous window.
IsSuperpermutation(seq, n) == \A p \in Permutations(n) : p \in Windows(seq, n)

RECURSIVE factorial(_)
factorial(n) == IF n = 0 THEN 1 ELSE n * factorial(n - 1)

\* The members of a vector.
Members(vec) == {vec[k] : k \in 1..Len(vec)}

\* C1: for each strategy and every n in 1..6 the sequence create_superperm(n)
\* returns holds every permutation of 1..n as a contiguous window, and
\* check_superperm of the same strategy returns true on it.
C1_SelfAgreement ==
    /\ pc \in {"returned", "checked"}
          => IsSuperpermutation(superperm, n_tokens)
    /\ pc = "checked" => verdict = "true"

\* C1 witness: the optimised strategy has built and checked its n = 6 output.
C1_Witness ==
    /\ pc = "checked" /\ n_tokens = SelfAgreementEnd - 1
    /\ strategy = "bruteforce_optimise" /\ verdict = "true"
    /\ Len(superperm) > factorial(n_tokens)

\* C2: for every sequence and every n >= 1, check_superperm returns true if
\* and only if every permutation of 1..n occurs as a window of width n, in
\* the naive and in the optimised strategy.
C2_TrueIffAllPermutations ==
    /\ naive_verdict = "true" <=> IsSuperpermutation(sequence, n_tokens)
    /\ optimise_verdict = "true" <=> IsSuperpermutation(sequence, n_tokens)

\* C2 witness: [1,2,3,1,2,1,3,2,1] has been checked for n = 3 and found true.
C2_Witness ==
    /\ n_tokens = 3 /\ sequence = <<1, 2, 3, 1, 2, 1, 3, 2, 1>>
    /\ naive_verdict = "true" /\ optimise_verdict = "true"

\* C3: when len(sequence) < n, check_superperm returns false and does not
\* panic, in the naive strategy as well as in the optimised one.
C3_ShortSequenceIsFalse ==
    Len(sequence) < n_tokens
        => naive_verdict = "false" /\ optimise_verdict = "false"

\* C4: the naive and the optimised check_superperm return the same boolean
\* for every n >= 1 and every sequence of non-negative integers.
C4_StrategiesAgree ==
    /\ naive_verdict \in {"true", "false"}
    /\ naive_verdict = optimise_verdict

\* C5: padding never invalidates a superpermutation: when check_superperm is
\* true of a sequence it is true of the sequence with one more token of 1..n
\* at the front or at the end, hence with any prefix and suffix, in both
\* strategies.
C5_PaddingKeepsTrue ==
    [][\A t \in 1..n_tokens :
          (sequence' = Append(sequence, t) \/ sequence' = <<t>> \o sequence)
              => /\ naive_verdict = "true" => naive_verdict' = "true"
                 /\ optimise_verdict = "true" => optimise_verdict' = "true"
      ]_vars

\* C5 witness: [1,2,3,1,2,1,3,2,1] with one more token in front has been
\* checked for n = 3 and found true.
C5_Witness ==
    /\ n_tokens = 3 /\ Len(sequence) = 10
    /\ SubSeq(sequence, 2, 10) = <<1, 2, 3, 1, 2, 1, 3, 2, 1>>
    /\ naive_verdict = "true" /\ optimise_verdict = "true"

\* C6: for every v in [0, n!), value_to_perm(v) is a permutation of 1..n that
\* no other value maps to, perm_to_value maps it back to Some(v), and
\* value_to_perm(0) is the base sequence.
C6_MapperRoundTrip ==
    LET mapper == mapper_for(n_tokens)
    IN  /\ pc \in {"perm", "mapped"} =>
              /\ IsPermutation(perm, n_tokens)
              /\ value = 0 => perm = mapper.core_sequence
              /\ \A w \in 0..(mapper.mixed_radix_sys.max_value - 1) :
                    w # value => value_to_perm(mapper, w) # perm
        /\ pc = "mapped" => mapped = <<value>>

\* C6 witness: the last value of the n = 5 mapper has been mapped to a
\* permutation other than the base sequence, and back.
C6_Witness ==
    /\ pc = "mapped" /\ n_tokens = 5 /\ value = factorial(5) - 1
    /\ perm # <<1, 2, 3, 4, 5>> /\ mapped = <<value>>

\* C7: perm_to_value returns None for every vector that is not a permutation
\* of the base sequence (wrong length, duplicated token, token outside the
\* alphabet), so it returns Some only for permutations.
C7_NoneUnlessPermutation ==
    pc = "target" /\ ~IsPermutation(perm_target, n_tokens)
        => target_value = << >>

\* C7 witness: a vector of the right length with a duplicated token has been
\* rejected.
C7_Witness ==
    /\ pc = "target" /\ n_tokens = 4 /\ perm_target = <<1, 2, 3, 3>>
    /\ target_value = << >>

\* C8: for every non-empty prefix p, possible_values_for(p) holds exactly the
\* values whose permutation starts with p, each once: (n - len(p))! values
\* for distinct in-alphabet tokens with len(p) <= n, none when p repeats a
\* token, holds a token outside the alphabet or is longer than n.
C8_PrefixValues ==
    pc = "target" /\ perm_target # << >> =>
        LET mapper == mapper_for(n_tokens)
            len == Len(perm_target)
            starting == {v \in 0..(mapper.mixed_radix_sys.max_value - 1) :
                            /\ len <= n_tokens
                            /\ SubSeq(value_to_perm(mapper, v), 1, len)
                                  = perm_target}
            wellformed == /\ len <= n_tokens
                          /\ Members(perm_target) \subseteq 1..n_tokens
                          /\ Cardinality(Members(perm_target)) = len
        IN  /\ Members(values) = starting
            /\ Len(values) = Cardinality(starting)
            /\ wellformed => Len(values) = factorial(n_tokens - len)
            /\ ~wellformed => values = << >>

\* C8 witness: a two-token prefix of the n = 4 mapper has yielded two values.
C8_Witness ==
    /\ pc = "target" /\ n_tokens = 4 /\ perm_target = <<3, 1>>
    /\ Len(values) = 2

\* C9: for the empty prefix possible_values_for returns every value from 0
\* through n! - 1, 0 included.
C9_EmptyPrefixAllValues ==
    pc = "target" /\ perm_target = << >> =>
        Members(values)
            = 0..(mapper_for(n_tokens).mixed_radix_sys.max_value - 1)

\* C10: for positive bases and every v below max_value (the product of the
\* bases), encode_value(v) has one digit per base with 0 <= d_i < b_i, no
\* other value below max_value has the same digits, and
\* decode_representation maps the digits back to v.
C10_RadixRoundTrip ==
    /\ pc \in {"encoded", "decoded"} =>
          /\ Len(repr) = Len(system.bases)
          /\ \A i \in 1..Len(repr) : 0 <= repr[i] /\ repr[i] < system.bases[i]
          /\ \A w \in 0..(system.max_value - 1) :
                w # val => encode_value(system, w) # repr
    /\ pc = "decoded" => decoded = val

\* C10 witness: 11 has been encoded over the bases [3,2,2] and decoded back.
C10_Witness ==
    /\ pc = "decoded" /\ system.bases = <<3, 2, 2>> /\ val = 11
    /\ repr = <<2, 1, 1>> /\ decoded = 11

\* The representations of the values 0..max_value-1 in increasing order.
AllRepresentations(sys) == [k \in 1..sys.max_value |-> encode_value(sys, k - 1)]

\* What holds of an iteration at every point of it.
IterationInOrder ==
    pc \in {"iterating", "ended"} =>
        /\ Len(yielded) = iter_i
        /\ iter_i <= system.max_value
        /\ yielded = SubSeq(AllRepresentations(system), 1, iter_i)
        /\ \A k \in 1..Len(yielded) :
              decode_representation(system, yielded[k]) = k - 1
        /\ pc = "ended" => Len(yielded) = system.max_value
        /\ \A p \in 1..Len(passes) :
              /\ passes[p] = AllRepresentations(system)
              /\ yielded = SubSeq(passes[p], 1, Len(yielded))

\* C11: iterating a MixedRadix yields exactly max_value representations, the
\* k-th being the encoding of value k (counting from 0), then ends; a new
\* iteration on the same system starts again at value 0 and yields the same
\* sequence; the system is unchanged throughout.
C11_IterationRestartable ==
    []IterationInOrder /\ [][system' = system]_vars

\* C11 witness: the second iteration over the bases [3,2,2] has ended after
\* the same 12 representations as the first, [0,1,0] being the fourth.
C11_Witness ==
    /\ pc = "ended" /\ system.bases = <<3, 2, 2>> /\ Len(passes) = 1
    /\ Len(yielded) = 12 /\ yielded[4] = <<0, 1, 0>> /\ yielded[12] = <<2, 1, 1>>
    /\ yielded = passes[1]

\* The checklist entries a step turns from false to true.
NewlyCovered ==
    {v \in DOMAIN perm_checklist : ~perm_checklist[v] /\ perm_checklist'[v]}

\* C12: every round of the outer loop of create_superperm, in either
\* strategy and either branch, turns exactly one checklist entry from false
\* to true (and none back), so the loop ends with all n! entries true.
C12_EachRoundCoversOne ==
    /\ [][round' = round + 1 =>
            /\ Cardinality(NewlyCovered) = 1
            /\ \A v \in DOMAIN perm_checklist :
                  perm_checklist[v] => perm_checklist'[v]]_vars
    /\ [](pc = "returned" =>
            \A v \in DOMAIN perm_checklist : perm_checklist[v])

\* The last i tokens of the output.
Trailing(i) == SubSeq(superperm, Len(superperm) - i + 1, Len(superperm))

\* The unchecked values whose permutation starts with the last i tokens.
UncoveredStarting(i) ==
    {v \in DOMAIN perm_checklist :
        /\ ~perm_checklist[v]
        /\ SubSeq(value_perms_table[n_tokens][v], 1, i) = Trailing(i)}

\* C13: each round of the optimised create_superperm takes the largest
\* width i in n-1..1 for which an unchecked permutation starts with the
\* output's last i tokens, among those permutations the one of smallest
\* value, checks it off and appends its last n-i tokens to the output, which
\* is otherwise left as it was; when no width matches, the unchecked
\* permutation of smallest value is appended whole.
C13_LargestOverlapSmallestValue ==
    [][strategy = "bruteforce_optimise" /\ round' = round + 1 =>
          LET widths == {i \in 1..(n_tokens - 1) : UncoveredStarting(i) # {}}
              unchecked == {v \in DOMAIN perm_checklist : ~perm_checklist[v]}
          IN  IF widths # {}
              THEN LET i == CHOOSE m \in widths : \A j \in widths : j <= m
                       v == CHOOSE m \in UncoveredStarting(i) :
                               \A w \in UncoveredStarting(i) : m <= w
                       added == value_perms_table[n_tokens][v]
                   IN  /\ superperm'
                            = superperm \o SubSeq(added, i + 1, n_tokens)
                       /\ Len(superperm') = Len(superperm) + n_tokens - i
                       /\ NewlyCovered = {v}
              ELSE LET v == CHOOSE m \in unchecked :
                               \A w \in unchecked : m <= w
                   IN  superperm' = superperm \o value_perms_table[n_tokens][v]
      ]_vars

\* C13 witness: for n = 3 the third round found no unchecked permutation
\* starting with [1,2], took [2,1,3] at width 1 and appended [1,3].
C13_Witness ==
    /\ strategy = "bruteforce_optimise" /\ n_tokens = 3 /\ round = 3
    /\ superperm = <<1, 2, 3, 1, 2, 1, 3>>
    /\ perm_checklist[decode_representation(
            mapper_for(3).mixed_radix_sys, <<1, 0, 0>>)]

\* C14: from initialisation on and after every round of create_superperm, in
\* both strategies, a checklist entry is true if and only if its permutation
\* occurs as a contiguous window of the output built so far.
C14_ChecklistIsWindows ==
    pc \in {"loop", "returned", "checked"} =>
        LET windows == Windows(superperm, n_tokens)
        IN  \A v \in DOMAIN perm_checklist :
                perm_checklist[v]
                    <=> checklist_perm(strategy, n_tokens, v) \in windows

\* C14 witness: bruteforce is ten rounds into n = 4, with eleven entries set,
\* after a round that appended more than one token.
C14_Witness ==
    /\ pc = "loop" /\ strategy = "bruteforce" /\ n_tokens = 4 /\ round = 10
    /\ Cardinality({v \in DOMAIN perm_checklist : perm_checklist[v]}) = 11
    /\ Len(superperm) > n_tokens + round

====
